---- MODULE Spec2Model ----
(***************************************************************************)
(* Model of check_host.py: the Check-Host job client (submit with retries, *)
(* poll under a time ceiling) and the per-check-type result normalizers of *)
(* NetworkTester.                                                          *)
(***************************************************************************)
EXTENDS Integers, Sequences, FiniteSets, TLC

VARIABLES
    pc,          \* position of the single control flow
    checkType,   \* the NetworkTester method that runs ("ping", "http", ...)
    attempt,     \* loop variable of `for attempt in range(MAX_RETRIES)`
    submits,     \* submission requests sent so far
    backoffs,    \* time.sleep(2) calls executed so far
    submitLog,   \* outcome of every submission request, in order
    submitExcs,  \* exception raised by every submission request, in order
    now,         \* time.time(), in seconds
    start_time,  \* _get_check_results: start_time
    elapsed,     \* _get_check_results: elapsed
    sleeps,      \* time.sleep(RESULT_WAIT_TIME) calls executed so far
    polls,       \* result requests sent so far
    pollLog,     \* outcome class of every poll request, in order
    result_data, \* _get_check_results: result_data of the latest response
    ret,         \* the return statement the API call left through
    api_result,  \* value returned by CheckHostAPI.check_*
    results,     \* value returned by the NetworkTester method
    error_printed, \* main printed its "Error: ..." line
    exit_code    \* exit status of the process, -1 while it runs

vars == <<pc, checkType, attempt, submits, backoffs, submitLog, submitExcs, now,
          start_time, elapsed, sleeps, polls, pollLog, result_data, ret,
          api_result, results, error_printed, exit_code>>

(***************************************************************************)
(* Global configuration                                                    *)
(***************************************************************************)
DEFAULT_TIMEOUT == 30
MAX_RETRIES == 3
RESULT_WAIT_TIME == 10
MAX_WAIT_TIME == 30
RETRY_SLEEP == 2

(***************************************************************************)
(* Bounds of the model                                                     *)
(***************************************************************************)
\* a poll response carries the first k of PollNodes, k <= MaxPollNodes
MaxPollNodes == 2
\* network-call durations are multiples of DurationStep seconds
DurationStep == 10
\* a payload handed to a normalizer has at most MaxNodes keys
MaxNodes == 2
\* a field sequence (http, tcp, udp) has at most MaxFields fields
MaxFields == 5
\* a sequence of ping attempts or dns records has at most MaxAttempts elements
MaxAttempts == 3

(***************************************************************************)
(* JSON values as Python sees them, tagged by type.  A string is the       *)
(* sequence of its characters, so len() and indexing behave as in Python.  *)
(***************************************************************************)
Null == [t |-> "null"]
Num(n) == [t |-> "num", n |-> n]
Bool(b) == [t |-> "bool", b |-> b]
Str(s) == [t |-> "str", s |-> s]
List(l) == [t |-> "list", l |-> l]
Dict(size) == [t |-> "dict", size |-> size]

CheckTypes == {"ping", "http", "tcp", "udp", "dns"}

\* str(e) of the transport exceptions a request can fail with
Causes == {"Read timed out.", "tlsv1 alert internal error"}

\* 'error' in text, for the texts above
ContainsError(text) == text = "tlsv1 alert internal error"

\* the value None
NoneResult == << <<"None">> >>

(***************************************************************************)
(* The reference table, cut down to three of its 46 entries: the two that  *)
(* share country and city, and one that shares them with no other.         *)
(***************************************************************************)
NODE_DETAILS ==
    [n \in {"ru1.node.check-host.net", "ru2.node.check-host.net",
            "us1.node.check-host.net"} |->
        CASE n = "ru1.node.check-host.net" -> [country |-> "Russia", city |-> "Moscow"]
          [] n = "ru2.node.check-host.net" -> [country |-> "Russia", city |-> "Moscow"]
          [] n = "us1.node.check-host.net" -> [country |-> "USA", city |-> "Los Angeles"]]

\* an identifier the table does not know
UnknownNode == "zz9.node.check-host.net"

\* f"{NODE_DETAILS[node]['country']} ({NODE_DETAILS[node]['city']})"
Region(node) == NODE_DETAILS[node].country \o " (" \o NODE_DETAILS[node].city \o ")"

(***************************************************************************)
(* Python dicts keep insertion order: a dict is a sequence of <<key,       *)
(* value>> pairs with distinct keys.                                       *)
(***************************************************************************)
Keys(d) == {d[i][1] : i \in DOMAIN d}
HasKey(d, k) == \E i \in DOMAIN d : d[i][1] = k
Get(d, k) == d[CHOOSE i \in DOMAIN d : d[i][1] = k][2]

\* {'error': 'No check ID received after retries'}
NoCheckIdError == << <<"error", [msg |-> "No check ID received after retries", cause |-> "none"]>> >>
\* variant: the text of the exception is left out
ApiFailedError_noCause(e) == << <<"error", [msg |-> "API request failed after retries", cause |-> "none"]>> >>

\* {'error': f"API request failed after retries: {str(e)}"}
ApiFailedError(e) == << <<"error", [msg |-> "API request failed after retries", cause |-> e]>> >>
\* {'error': f"Timeout waiting for results: {str(e)}"}
PollTransportError(e) == << <<"error", [msg |-> "Timeout waiting for results", cause |-> e]>> >>
\* {'error': 'Timeout waiting for all nodes to respond'}
PollIncompleteError == << <<"error", [msg |-> "Timeout waiting for all nodes to respond", cause |-> "none"]>> >>

(***************************************************************************)
(* CheckHostAPI.check_ping / check_http / check_tcp / check_udp /          *)
(* check_dns: the five methods differ only in the endpoint.                *)
(***************************************************************************)
\* variant: the last attempt is taken to be the second
IsLastAttempt_early(a) == a = MAX_RETRIES - 2

\* variant: no attempt is taken to be the last
IsLastAttempt_never(a) == FALSE

\* attempt == MAX_RETRIES - 1
IsLastAttempt(a) == a = MAX_RETRIES - 1

\* for attempt in range(MAX_RETRIES): the loop has another iteration
InRange(a) == a < MAX_RETRIES

\* the request fails in transport (RequestException)
SubmitTransportFail(e) ==
    /\ pc = "submit"
    /\ submits' = submits + 1
    /\ submitLog' = Append(submitLog, "transport")
    /\ submitExcs' = Append(submitExcs, e)
    /\ IF IsLastAttempt(attempt)
       THEN /\ api_result' = ApiFailedError(e)
            /\ ret' = "api_failed"
            /\ pc' = "returned"
       ELSE /\ pc' = "backoff"
            /\ UNCHANGED <<api_result, ret>>
    /\ UNCHANGED <<error_printed, exit_code, checkType, attempt, backoffs, now, start_time, elapsed,
                   sleeps, polls, pollLog, result_data, results>>

\* time.sleep(2) of the except branch, then the next iteration
Backoff ==
    /\ pc = "backoff"
    /\ now' = now + RETRY_SLEEP
    /\ backoffs' = backoffs + 1
    /\ IF InRange(attempt + 1)
       THEN /\ attempt' = attempt + 1
            /\ pc' = "submit"
            /\ UNCHANGED <<api_result, ret>>
       ELSE \* the loop ends and the method returns None
            /\ api_result' = NoneResult
            /\ ret' = "fell_off"
            /\ pc' = "returned"
            /\ UNCHANGED attempt
    /\ UNCHANGED <<submitLog, submitExcs, error_printed, exit_code, checkType,
                   submits, start_time, elapsed, sleeps, polls, pollLog,
                   result_data, results>>

\* the response carries no request_id: `continue`, or give up on the last attempt
SubmitNoHandle ==
    /\ pc = "submit"
    /\ submits' = submits + 1
    /\ submitLog' = Append(submitLog, "nohandle")
    /\ submitExcs' = Append(submitExcs, "none")
    /\ IF IsLastAttempt(attempt)
       THEN /\ api_result' = NoCheckIdError
            /\ ret' = "no_check_id"
            /\ pc' = "returned"
            /\ UNCHANGED attempt
       ELSE IF InRange(attempt + 1)
       THEN /\ attempt' = attempt + 1
            /\ pc' = "submit"
            /\ UNCHANGED <<api_result, ret>>
       ELSE \* the loop ends and the method returns None
            /\ api_result' = NoneResult
            /\ ret' = "fell_off"
            /\ pc' = "returned"
            /\ UNCHANGED attempt
    /\ UNCHANGED <<error_printed, exit_code, checkType, backoffs, now, start_time, elapsed, sleeps,
                   polls, pollLog, result_data, results>>

\* the response carries a request_id: enter _get_check_results
SubmitHandle ==
    /\ pc = "submit"
    /\ submits' = submits + 1
    /\ submitLog' = Append(submitLog, "handle")
    /\ submitExcs' = Append(submitExcs, "none")
    /\ start_time' = now
    /\ elapsed' = 0
    /\ pc' = "await"
    /\ UNCHANGED <<error_printed, exit_code, checkType, attempt, backoffs, now, sleeps, polls, pollLog,
                   result_data, ret, api_result, results>>

(***************************************************************************)
(* CheckHostAPI._get_check_results                                         *)
(***************************************************************************)
\* variant: the loop runs while elapsed is below the poll interval
WithinCeiling_short(e) == e < RESULT_WAIT_TIME

\* while elapsed < MAX_WAIT_TIME
WithinCeiling(e) == e < MAX_WAIT_TIME

\* variant: the except branch never returns
AtDeadline_never(e) == FALSE

\* elapsed >= MAX_WAIT_TIME, in the except branch
AtDeadline(e) == e >= MAX_WAIT_TIME

\* time.time() - start_time
Elapsed(t, start) == t - start

\* variant: half the interval
PollSleepTime_half == RESULT_WAIT_TIME \div 2

\* the argument of time.sleep before a poll
PollSleepTime == RESULT_WAIT_TIME

\* variant: only list-valued entries count as reported
AllResponded_lists(data) == \A i \in DOMAIN data : data[i][2].t = "list"

\* variant: any() in place of all()
AllResponded_any(data) == \E i \in DOMAIN data : data[i][2] # Null

\* all(v is not None for v in result_data.values())
AllResponded(data) == \A i \in DOMAIN data : data[i][2] # Null

\* how long one network call can take
CallDurations == {d \in 0..DEFAULT_TIMEOUT : d % DurationStep = 0 \/ d = DEFAULT_TIMEOUT}

\* the nodes a check is submitted for, in request order
PollNodes == <<"ru1.node.check-host.net", "ru2.node.check-host.net",
               "us1.node.check-host.net">>

\* what one node's entry can be while the check runs
PollEntries == {Null, Str(<<"e", "r", "r">>), List(<<>>)}

\* the snapshots the result endpoint can answer with
PollPayloads ==
    UNION {{[i \in 1..k |-> <<PollNodes[i], e[i]>>] : e \in [1..k -> PollEntries]} :
           k \in 0..MaxPollNodes}

\* outcome class of a response, for the poll log
Classify(data) ==
    IF \A i \in DOMAIN data : data[i][2].t # "null" THEN "complete"
    ELSE IF \A i \in DOMAIN data : data[i][2].t = "null" THEN "allnull"
    ELSE "partial"

\* variant: a timeout goes back to the submission loop while attempts remain
WhileTest_resubmit ==
    /\ pc = "await"
    /\ IF WithinCeiling(elapsed)
       THEN /\ pc' = "sleep"
            /\ UNCHANGED <<api_result, ret>>
       ELSE IF attempt < MAX_RETRIES - 1
       THEN /\ pc' = "submit"
            /\ UNCHANGED <<api_result, ret>>
       ELSE /\ api_result' = PollIncompleteError
            /\ ret' = "poll_incomplete"
            /\ pc' = "returned"
    /\ UNCHANGED <<submitLog, submitExcs, error_printed, exit_code, checkType, attempt, submits, backoffs, now, start_time,
                   elapsed, sleeps, polls, pollLog, result_data, results>>

\* the loop test
WhileTest ==
    /\ pc = "await"
    /\ IF WithinCeiling(elapsed)
       THEN /\ pc' = "sleep"
            /\ UNCHANGED <<api_result, ret>>
       ELSE /\ api_result' = PollIncompleteError
            /\ ret' = "poll_incomplete"
            /\ pc' = "returned"
    /\ UNCHANGED <<submitLog, submitExcs, error_printed, exit_code, checkType, attempt, submits, backoffs, now, start_time,
                   elapsed, sleeps, polls, pollLog, result_data, results>>

\* time.sleep(RESULT_WAIT_TIME)
PollSleep ==
    /\ pc = "sleep"
    /\ now' = now + PollSleepTime
    /\ sleeps' = sleeps + 1
    /\ pc' = "poll"
    /\ UNCHANGED <<submitLog, submitExcs, error_printed, exit_code, checkType, attempt, submits, backoffs, start_time, elapsed,
                   polls, pollLog, result_data, ret, api_result, results>>

\* the response is a payload in which every node has reported
PollComplete(data, d) ==
    /\ pc = "poll"
    /\ AllResponded(data)
    /\ polls' = polls + 1
    /\ now' = now + d
    /\ result_data' = data
    /\ pollLog' = Append(pollLog, Classify(data))
    /\ api_result' = data
    /\ ret' = "payload"
    /\ pc' = "returned"
    /\ UNCHANGED <<submitLog, submitExcs, error_printed, exit_code, checkType, attempt, submits, backoffs, start_time, elapsed,
                   sleeps, results>>

\* the response is a payload in which some node has not reported
PollIncomplete(data, d) ==
    /\ pc = "poll"
    /\ ~AllResponded(data)
    /\ polls' = polls + 1
    /\ now' = now + d
    /\ result_data' = data
    /\ pollLog' = Append(pollLog, Classify(data))
    /\ elapsed' = Elapsed(now', start_time)
    /\ pc' = "await"
    /\ UNCHANGED <<submitLog, submitExcs, error_printed, exit_code, checkType, attempt, submits, backoffs, start_time, sleeps,
                   ret, api_result, results>>

\* the request fails in transport (RequestException)
PollTransportFail(e, d) ==
    /\ pc = "poll"
    /\ polls' = polls + 1
    /\ now' = now + d
    /\ pollLog' = Append(pollLog, "transport")
    /\ elapsed' = Elapsed(now', start_time)
    /\ IF AtDeadline(elapsed')
       THEN /\ api_result' = PollTransportError(e)
            /\ ret' = "poll_transport"
            /\ pc' = "returned"
       ELSE /\ pc' = "await"
            /\ UNCHANGED <<api_result, ret>>
    /\ UNCHANGED <<submitLog, submitExcs, error_printed, exit_code, checkType, attempt, submits, backoffs, start_time, sleeps,
                   result_data, results>>

(***************************************************************************)
(* Python operations on JSON values.  An operation that raises yields the  *)
(* name of the exception; "none" means it does not raise.                  *)
(***************************************************************************)
\* bool(v)
Truthy(v) ==
    CASE v.t = "null" -> FALSE
      [] v.t = "num"  -> v.n # 0
      [] v.t = "bool" -> v.b
      [] v.t = "str"  -> Len(v.s) > 0
      [] v.t = "list" -> Len(v.l) > 0
      [] v.t = "dict" -> v.size > 0

\* isinstance(v, list)
IsList(v) == v.t = "list"

\* len(v): the exception it raises
LenExc(v) == IF v.t \in {"str", "list", "dict"} THEN "none" ELSE "TypeError"

\* len(v), where it does not raise
PyLen(v) ==
    CASE v.t = "str"  -> Len(v.s)
      [] v.t = "list" -> Len(v.l)
      [] v.t = "dict" -> v.size

\* v[i] for an integer i >= 0: the exception it raises
ItemExc(v, i) ==
    CASE v.t = "list" -> IF i < Len(v.l) THEN "none" ELSE "IndexError"
      [] v.t = "str"  -> IF i < Len(v.s) THEN "none" ELSE "IndexError"
      [] v.t = "dict" -> "KeyError"
      [] OTHER        -> "TypeError"

\* v[i], where it does not raise
Item(v, i) == IF v.t = "list" THEN v.l[i + 1] ELSE Str(<<v.s[i + 1]>>)

\* v * 1000: the exception it raises
MulExc(v) == IF v.t \in {"null", "dict"} THEN "TypeError" ELSE "none"

\* a str or list repeated k times, kept as the pair of factor and operand
Repeat(v, k) == [t |-> "repeat", of |-> v, times |-> k]

\* v * 1000, where it does not raise: a product, or a 1000-fold repetition
Mul1000(v) ==
    CASE v.t = "num"  -> Num(v.n * 1000)
      [] v.t = "bool" -> Num(IF v.b THEN 1000 ELSE 0)
      [] v.t = "str"  -> Repeat(v, 1000)
      [] v.t = "list" -> Repeat(v, 1000)

\* sum(xs) for a non-empty list: the exception it raises
SumExc(xs) == IF \A i \in DOMAIN xs : xs[i].t = "num" THEN "none" ELSE "TypeError"

\* v == 1
EqOne(v) == (v.t = "num" /\ v.n = 1) \/ (v.t = "bool" /\ v.b)

\* v == "OK"
EqOK(v) == v.t = "str" /\ v.s = <<"O", "K">>

\* the first exception raised by a sequence of operations evaluated in order
RECURSIVE FirstExc(_)
FirstExc(es) ==
    IF es = <<>> THEN "none"
    ELSE IF Head(es) # "none" THEN Head(es)
    ELSE FirstExc(Tail(es))

\* an exception raised while a node's record is built
Raised(e) == [raised |-> e]

\* how a method ends: it returns a dict, or an exception leaves it
Returns(d) == [raised |-> "none", value |-> d]
Raises(e) == [raised |-> e, value |-> [k \in {} |-> Null]]

RECURSIVE GCD(_, _)
GCD(a, b) == IF b = 0 THEN a ELSE GCD(b, a % b)

\* the quotient n / d of true division, as a fraction in lowest terms
Frac(n, d) == LET g == GCD(n, d) IN [num |-> n \div g, den |-> d \div g]

RECURSIVE SeqSum(_)
SeqSum(xs) == IF xs = <<>> THEN 0 ELSE Head(xs) + SeqSum(Tail(xs))

SeqMin(xs) == CHOOSE m \in {xs[i] : i \in DOMAIN xs} : \A i \in DOMAIN xs : m <= xs[i]
SeqMax(xs) == CHOOSE m \in {xs[i] : i \in DOMAIN xs} : \A i \in DOMAIN xs : m >= xs[i]

\* [x for x in xs if keep(x)] over the indices of xs
RECURSIVE FilterIdx(_, _)
FilterIdx(n, keep) ==
    IF n = 0 THEN <<>>
    ELSE IF keep[n] THEN Append(FilterIdx(n - 1, keep), n)
    ELSE FilterIdx(n - 1, keep)

\* node_result and isinstance(node_result, list) and len(node_result) > 0
HasData(node_result) ==
    Truthy(node_result) /\ IsList(node_result) /\ Len(node_result.l) > 0

\* variant: the two error texts swapped
NoData_swapped(name) == [success |-> FALSE, error |-> <<"Invalid", name, "response">>]

\* {'success': False, 'error': 'No <name> data'}
NoData(name) == [success |-> FALSE, error |-> <<"No", name, "data">>]
\* {'success': False, 'error': 'Invalid <name> response'}
Invalid(name) == [success |-> FALSE, error |-> <<"Invalid", name, "response">>]

(***************************************************************************)
(* NetworkTester.ping: the record of one node, or the exception raised     *)
(***************************************************************************)
PingRecord(node_result) ==
    IF ~HasData(node_result) THEN NoData("ping")
    ELSE LET ping_result == node_result.l[1] IN
    IF ~(IsList(ping_result) /\ Len(ping_result.l) > 1) THEN Invalid("ping")
    ELSE LET rs == ping_result.l
             n == Len(rs)
             \* sum(1 for r in ping_result if r[0] == "OK")
             e1 == FirstExc([i \in 1..n |-> ItemExc(rs[i], 0)])
             ok == [i \in 1..n |-> EqOK(Item(rs[i], 0))]
             oks == FilterIdx(n, ok)
             successful == Len(oks)
             \* [r[1] * 1000 for r in ping_result if r[0] == "OK"]
             e2 == FirstExc([k \in 1..Len(oks) |->
                      IF ItemExc(rs[oks[k]], 1) # "none" THEN ItemExc(rs[oks[k]], 1)
                      ELSE MulExc(Item(rs[oks[k]], 1))])
             rtts == [k \in 1..Len(oks) |-> Mul1000(Item(rs[oks[k]], 1))]
             \* sum(rtts)/len(rtts) if rtts else 0
             e3 == IF Len(oks) > 0 THEN SumExc(rtts) ELSE "none"
             ms == [k \in 1..Len(oks) |-> rtts[k].n]
         IN  IF e1 # "none" THEN Raised(e1)
             ELSE IF e2 # "none" THEN Raised(e2)
             ELSE IF e3 # "none" THEN Raised(e3)
             ELSE [success |-> successful > 0,
                   avg_latency |-> IF Len(ms) > 0 THEN Frac(SeqSum(ms), Len(ms)) ELSE Frac(0, 1),
                   min_latency |-> IF Len(ms) > 0 THEN SeqMin(ms) ELSE 0,
                   max_latency |-> IF Len(ms) > 0 THEN SeqMax(ms) ELSE 0,
                   packet_loss |-> IF n > 0 THEN Frac((n - successful) * 100, n) ELSE Frac(100, 1),
                   ip |-> IF PyLen(rs[1]) > 2 THEN Item(rs[1], 2) ELSE Null]

(***************************************************************************)
(* NetworkTester.http_check                                                *)
(***************************************************************************)
HttpRecord(node_result) ==
    IF ~HasData(node_result) THEN NoData("HTTP")
    ELSE LET http_result == node_result.l[1] IN
    IF ~(IsList(http_result) /\ Len(http_result.l) > 3) THEN Invalid("HTTP")
    ELSE LET f == http_result.l IN
         IF MulExc(f[2]) # "none" THEN Raised(MulExc(f[2]))
         ELSE [success |-> EqOne(f[1]),
               status_code |-> f[4],
               status_msg |-> f[3],
               response_time |-> Mul1000(f[2]),
               ip |-> IF Len(f) > 4 THEN f[5] ELSE Null]

(***************************************************************************)
(* NetworkTester.tcp_check                                                 *)
(***************************************************************************)
TcpRecord(node_result) ==
    IF ~HasData(node_result) THEN NoData("TCP")
    ELSE LET tcp_result == node_result.l[1] IN
    IF ~(IsList(tcp_result) /\ Len(tcp_result.l) > 1) THEN Invalid("TCP")
    ELSE LET f == tcp_result.l IN
         IF MulExc(f[2]) # "none" THEN Raised(MulExc(f[2]))
         ELSE [success |-> EqOne(f[1]),
               connect_time |-> Mul1000(f[2]),
               ip |-> IF Len(f) > 2 THEN f[3] ELSE Null]

(***************************************************************************)
(* NetworkTester.udp_check                                                 *)
(***************************************************************************)
UdpRecord(node_result) ==
    IF ~HasData(node_result) THEN NoData("UDP")
    ELSE LET udp_result == node_result.l[1] IN
    IF ~(IsList(udp_result) /\ Len(udp_result.l) > 1) THEN Invalid("UDP")
    ELSE LET f == udp_result.l IN
         IF MulExc(f[2]) # "none" THEN Raised(MulExc(f[2]))
         ELSE [success |-> EqOne(f[1]),
               response_time |-> Mul1000(f[2]),
               ip |-> IF Len(f) > 2 THEN f[3] ELSE Null]

(***************************************************************************)
(* NetworkTester.dns_check                                                 *)
(***************************************************************************)
DnsRecord(node_result) ==
    IF ~HasData(node_result) THEN NoData("DNS")
    ELSE LET dns_result == node_result.l[1] IN
    IF ~(IsList(dns_result) /\ Len(dns_result.l) > 0) THEN Invalid("DNS")
    ELSE LET rs == dns_result.l
             n == Len(rs)
             \* [record[1] for record in dns_result if len(record) > 1]
             e1 == FirstExc([i \in 1..n |->
                      IF LenExc(rs[i]) # "none" THEN LenExc(rs[i])
                      ELSE IF PyLen(rs[i]) > 1 THEN ItemExc(rs[i], 1)
                      ELSE "none"])
             long == FilterIdx(n, [i \in 1..n |-> PyLen(rs[i]) > 1])
             \* dns_result[0][0] * 1000 if dns_result[0][0] else 0
             e2 == IF ItemExc(rs[1], 0) # "none" THEN ItemExc(rs[1], 0)
                   ELSE IF Truthy(Item(rs[1], 0)) THEN MulExc(Item(rs[1], 0))
                   ELSE "none"
         IN  IF e1 # "none" THEN Raised(e1)
             ELSE IF e2 # "none" THEN Raised(e2)
             ELSE [success |-> TRUE,
                   resolution_time |-> IF Truthy(Item(rs[1], 0))
                                       THEN Mul1000(Item(rs[1], 0)) ELSE Num(0),
                   addresses |-> [k \in 1..Len(long) |-> Item(rs[long[k]], 1)]]

\* the branch of the loop body for one check type
NodeRecord(type, node_result) ==
    CASE type = "ping" -> PingRecord(node_result)
      [] type = "http" -> HttpRecord(node_result)
      [] type = "tcp"  -> TcpRecord(node_result)
      [] type = "udp"  -> UdpRecord(node_result)
      [] type = "dns"  -> DnsRecord(node_result)

\* if node in NODE_DETAILS
IsKnown(node) == node \in DOMAIN NODE_DETAILS

\* results[region] = {...}: a dict as a function from its keys
Store(res, region, rec) ==
    [r \in DOMAIN res \cup {region} |-> IF r = region THEN rec ELSE res[r]]

\* variant: an unknown node is kept under its identifier
LoopBody_keepUnknown(type, res, node, node_result) ==
    IF IsKnown(node) THEN Store(res, Region(node), NodeRecord(type, node_result))
    ELSE Store(res, node, NodeRecord(type, node_result))

\* one iteration of `for node, node_result in api_result.items()`
LoopBody(type, res, node, node_result) ==
    IF IsKnown(node) THEN Store(res, Region(node), NodeRecord(type, node_result))
    ELSE res

\* the empty dict `results = {}`
EmptyResults == [r \in {} |-> Null]

\* the loop over api_result.items(), left early by the first exception
RECURSIVE Loop(_, _, _, _)
Loop(type, res, payload, i) ==
    IF i > Len(payload) THEN Returns(res)
    ELSE IF IsKnown(payload[i][1]) /\ "raised" \in DOMAIN NodeRecord(type, payload[i][2])
         THEN Raises(NodeRecord(type, payload[i][2]).raised)
    ELSE Loop(type, LoopBody(type, res, payload[i][1], payload[i][2]), payload, i + 1)

\* the body of a NetworkTester method after its API call returned
Normalize(type, api) ==
    IF api = NoneResult THEN Raises("TypeError")
    ELSE IF HasKey(api, "error") THEN Returns([k \in {"error"} |-> Get(api, "error")])
    ELSE Loop(type, EmptyResults, api, 1)

\* a NetworkTester method, from the return of its API call to its own return.
\* The five check_* methods are the same code up to the endpoint, so the
\* method that was called is recorded here, where the five start to differ.
Method(type) ==
    /\ pc = "returned"
    /\ checkType' = type
    /\ results' = Normalize(type, api_result)
    /\ pc' = "done"
    /\ UNCHANGED <<submitLog, submitExcs, error_printed, exit_code, attempt, submits, backoffs, now, start_time,
                   elapsed, sleeps, polls, pollLog, result_data, ret, api_result>>

ping == Method("ping")
http_check == Method("http")
tcp_check == Method("tcp")
udp_check == Method("udp")
dns_check == Method("dns")

(***************************************************************************)
(* display_*_results and the end of main                                   *)
(***************************************************************************)
\* f"{v:.1f}": the exception it raises
FormatFloatExc(v) ==
    CASE v.t \in {"num", "bool"} -> "none"
      [] v.t = "repeat" /\ v.of.t = "str" -> "ValueError"
      [] v.t = "str" -> "ValueError"
      [] OTHER -> "TypeError"

\* f"{v:<15}": the exception it raises
FormatAlignExc(v) ==
    CASE v.t \in {"num", "bool", "str"} -> "none"
      [] v.t = "repeat" /\ v.of.t = "str" -> "none"
      [] OTHER -> "TypeError"

\* ", ".join(xs): the exception it raises
JoinExc(xs) == IF \A i \in DOMAIN xs : xs[i].t = "str" THEN "none" ELSE "TypeError"

\* the loop body of a display function when data is a record of a node
DisplayRecordExc(type, data) ==
    IF "error" \in DOMAIN data THEN "none"
    ELSE IF ~data.success THEN "none"
    ELSE CASE type = "ping" -> FormatAlignExc(data.ip)
           [] type = "http" -> FirstExc(<<FormatFloatExc(data.response_time),
                                          FormatAlignExc(data.ip)>>)
           [] type = "tcp"  -> FirstExc(<<FormatFloatExc(data.connect_time),
                                          FormatAlignExc(data.ip)>>)
           [] type = "udp"  -> FirstExc(<<FormatFloatExc(data.response_time),
                                          FormatAlignExc(data.ip)>>)
           [] type = "dns"  -> FirstExc(<<FormatFloatExc(data.resolution_time),
                                          JoinExc(data.addresses)>>)

\* variant: a text that contains 'error' is printed as the row's error
DisplayTextExc_printed(detail) ==
    IF ContainsError(detail.cause) THEN "none" ELSE "AttributeError"

\* the loop body when data is the text of a top-level error:
\* `'error' in data` is a substring test, then data['error'] or data.get
DisplayTextExc(detail) ==
    IF ContainsError(detail.cause) THEN "TypeError" ELSE "AttributeError"

\* the exception a display function raises, "none" when it returns
DisplayExc(type, value) ==
    IF DOMAIN value = {"error"} THEN DisplayTextExc(value["error"])
    ELSE IF \E k \in DOMAIN value : DisplayRecordExc(type, value[k]) # "none"
         THEN LET k == CHOOSE k \in DOMAIN value : DisplayRecordExc(type, value[k]) # "none"
              IN  DisplayRecordExc(type, value[k])
    ELSE "none"

\* main, from the return of the NetworkTester method to the end of the process
main ==
    /\ pc = "done"
    /\ pc' = "exited"
    /\ IF results.raised # "none" \/ DisplayExc(checkType, results.value) # "none"
       THEN \* except Exception as e: print(f"Error: {e}"); sys.exit(1)
            /\ error_printed' = TRUE
            /\ exit_code' = 1
       ELSE /\ error_printed' = FALSE
            /\ exit_code' = 0
    /\ UNCHANGED <<checkType, attempt, submits, backoffs, submitLog, submitExcs,
                   now, start_time, elapsed, sleeps, polls, pollLog, result_data,
                   ret, api_result, results>>

Init ==
    /\ pc = "submit"
    /\ checkType = "none"
    /\ attempt = 0
    /\ submits = 0
    /\ backoffs = 0
    /\ submitLog = <<>>
    /\ submitExcs = <<>>
    /\ now = 0
    /\ start_time = 0
    /\ elapsed = 0
    /\ sleeps = 0
    /\ polls = 0
    /\ pollLog = <<>>
    /\ result_data = <<>>
    /\ ret = "none"
    /\ api_result = <<>>
    /\ results = Returns(EmptyResults)
    /\ error_printed = FALSE
    /\ exit_code = -1

Next ==
    \/ \E e \in Causes : SubmitTransportFail(e)
    \/ Backoff
    \/ SubmitNoHandle
    \/ SubmitHandle
    \/ WhileTest
    \/ PollSleep
    \/ \E data \in PollPayloads, d \in CallDurations : PollComplete(data, d)
    \/ \E data \in PollPayloads, d \in CallDurations : PollIncomplete(data, d)
    \/ \E e \in Causes, d \in CallDurations : PollTransportFail(e, d)
    \/ ping
    \/ http_check
    \/ tcp_check
    \/ udp_check
    \/ dns_check
    \/ main

Spec == Init /\ [][Next]_vars

\* every step of the program is taken once it can be: the process is not
\* suspended and every network call returns or fails within its timeout
FairSpec == Spec /\ WF_vars(Next)

(***************************************************************************)
(* The normalizers on their own: a method starts from a fully populated    *)
(* payload that its API call returned after one poll.                      *)
(***************************************************************************)
OK == Str(<<"O", "K">>)
TIMEOUT == Str(<<"T", "O">>)
IP1 == Str(<<"i", "p", "1">>)
IP2 == Str(<<"i", "p", "2">>)

\* the shapes one node's entry can have
NormEntries ==
    { Str(<<"e", "r", "r">>),
      List(<<>>),
      List(<<Null>>),
      List(<<Dict(2)>>),
      List(<<List(<<List(<<OK, Num(1), IP1>>), List(<<TIMEOUT, Num(3)>>)>>)>>),
      List(<<List(<<List(<<OK>>), List(<<OK>>)>>)>>),
      List(<<List(<<Null, Null>>)>>),
      List(<<List(<<Num(1), Num(2), OK, Num(200), IP1>>)>>),
      List(<<List(<<Num(0), Num(1), TIMEOUT, Null, Null>>)>>),
      List(<<List(<<List(<<Num(1), IP1>>), List(<<Null, IP2>>)>>)>>) }

\* the identifiers a payload can be keyed by
NodeIds == DOMAIN NODE_DETAILS \cup {UnknownNode}

\* the key orders of a payload: sequences of distinct identifiers
KeySeqs ==
    UNION {{ks \in [1..k -> NodeIds] : \A i, j \in 1..k : i # j => ks[i] # ks[j]} :
           k \in 0..MaxNodes}

\* the fully populated payloads
NormPayloads ==
    UNION {{[i \in DOMAIN ks |-> <<ks[i], e[i]>>] : e \in [DOMAIN ks -> NormEntries]} :
           ks \in KeySeqs}

NormInit ==
    /\ pc = "returned"
    /\ checkType = "none"
    /\ attempt = 0
    /\ submits = 1
    /\ backoffs = 0
    /\ submitLog = <<"handle">>
    /\ submitExcs = <<"none">>
    /\ now = RESULT_WAIT_TIME
    /\ start_time = 0
    /\ elapsed = 0
    /\ sleeps = 1
    /\ polls = 1
    /\ pollLog = <<"complete">>
    /\ api_result \in NormPayloads
    /\ result_data = api_result
    /\ ret = "payload"
    /\ results = Returns(EmptyResults)
    /\ error_printed = FALSE
    /\ exit_code = -1

NormNext ==
    \/ ping
    \/ http_check
    \/ tcp_check
    \/ udp_check
    \/ dns_check

NormSpec == NormInit /\ [][NormNext]_vars

(***************************************************************************)
(* One node's entry on its own: a method starts from a payload with the    *)
(* single key us1 and an entry of any of the shapes below.                 *)
(***************************************************************************)
\* the scalar fields of an http, tcp or udp result
FieldAtoms == {Null, Num(0), Num(1), Num(2), OK}

\* the field sequences
FieldSeqs == UNION {[1..k -> FieldAtoms] : k \in 0..MaxFields}

\* the attempts of a ping result and the records of a dns result
AttemptShapes ==
    { Null,
      List(<<>>),
      List(<<OK>>),
      List(<<OK, Num(1), IP1>>),
      List(<<OK, Num(3)>>),
      List(<<TIMEOUT, Num(3)>>),
      List(<<TIMEOUT>>),
      List(<<Num(1), IP1>>),
      List(<<Null, IP2>>),
      List(<<Num(2)>>) }

\* the sequences of attempts or records
AttemptSeqs == UNION {[1..k -> AttemptShapes] : k \in 0..MaxAttempts}

\* the entries that are not sequences, and the empty sequence
FlatEntries ==
    { Str(<<"e", "r", "r">>), Str(<<>>), Num(0), Num(1), Dict(0), Dict(1), List(<<>>),
      List(<<Null>>), List(<<Num(1)>>), List(<<OK>>), List(<<Dict(1)>>) }

\* the shapes one node's entry can have
EntryShapes ==
    FlatEntries \cup {List(<<List(f)>>) : f \in FieldSeqs \cup AttemptSeqs}

EntryNode == "us1.node.check-host.net"

EntryInit ==
    /\ pc = "returned"
    /\ checkType = "none"
    /\ attempt = 0
    /\ submits = 1
    /\ backoffs = 0
    /\ submitLog = <<"handle">>
    /\ submitExcs = <<"none">>
    /\ now = RESULT_WAIT_TIME
    /\ start_time = 0
    /\ elapsed = 0
    /\ sleeps = 1
    /\ polls = 1
    /\ pollLog = <<"complete">>
    /\ \E e \in EntryShapes : api_result = << <<EntryNode, e>> >>
    /\ result_data = api_result
    /\ ret = "payload"
    /\ results = Returns(EmptyResults)
    /\ error_printed = FALSE
    /\ exit_code = -1

EntrySpec == EntryInit /\ [][NormNext]_vars

(***************************************************************************)
(* Properties                                                              *)
(***************************************************************************)
Last(q) == q[Len(q)]
NoHandleYet == \A i \in DOMAIN submitLog : submitLog[i] # "handle"
ApiReturned == pc \in {"returned", "done", "exited"}
InAwait == pc \in {"await", "sleep", "poll"}

\* C1: when no submission attempt yields a job handle, exactly 3 submission
\* requests are sent, polling never starts, and the call ends with the
\* submission error; no 4th request is sent and the call does not end
\* before the 3rd.
C1_SubmitExhaustsRetries ==
    /\ submits <= 3
    /\ NoHandleYet => (sleeps = 0 /\ polls = 0 /\ ~InAwait)
    /\ (NoHandleYet /\ ApiReturned) =>
          /\ submits = 3
          /\ ret \in {"api_failed", "no_check_id"}
          /\ HasKey(api_result, "error")
          /\ Get(api_result, "error").msg \in {"API request failed after retries",
                                               "No check ID received after retries"}
    /\ (NoHandleYet /\ submits = 3) => ApiReturned

C1_Witness ==
    /\ pc = "returned"
    /\ submitLog = <<"transport", "nohandle", "transport">>
    /\ ret = "api_failed"

\* C2: whenever a further submission request is about to be sent, every
\* earlier request of the check was followed by the 2s backoff.
C2_BackoffBeforeEveryRetry ==
    pc = "submit" => (backoffs = submits /\ now = 2 * submits)

\* C3: when every poll so far answered a payload whose entries are all null,
\* the call goes on polling while elapsed is below 30s, never returns a
\* payload, and ends with the incomplete-results timeout once 30s are reached.
C3_AllNullPollsUntilCeiling ==
    (pollLog # <<>> /\ \A i \in DOMAIN pollLog : pollLog[i] = "allnull") =>
        /\ ret # "payload"
        /\ elapsed < 30 => InAwait
        /\ ApiReturned =>
              /\ ret = "poll_incomplete"
              /\ api_result = PollIncompleteError
              /\ elapsed >= 30

C3_Witness ==
    /\ pc = "returned"
    /\ ret = "poll_incomplete"
    /\ pollLog = <<"allnull", "allnull", "allnull">>

\* C4: when the first poll answers a payload without a null entry, the call
\* returns that payload after exactly one sleep and one poll request.
C4_FirstPollCompleteReturns ==
    (pollLog # <<>> /\ pollLog[1] = "complete") =>
        /\ sleeps = 1
        /\ polls = 1
        /\ Len(pollLog) = 1
        /\ ApiReturned
        /\ ret = "payload"
        /\ api_result = result_data

C4_Witness ==
    /\ pc = "returned"
    /\ ret = "payload"
    /\ polls = 1
    /\ \E i \in DOMAIN api_result : api_result[i][2].t = "str"

\* C5: a payload returned by the polling call has no null entry.
C5_ReturnedPayloadHasNoNull ==
    ret = "payload" => \A i \in DOMAIN api_result : api_result[i][2].t # "null"

C5_Witness ==
    /\ ret = "payload"
    /\ pollLog = <<"partial", "transport", "complete">>
    /\ Len(api_result) = 2

\* C6: every poll request is preceded by its own 10s sleep, a poll attempt
\* starts only while elapsed is below 30s, and at most 3 poll requests are
\* sent.
C6_AtMostThreePolls ==
    /\ polls <= 3
    /\ sleeps = (IF pc = "poll" THEN polls + 1 ELSE polls)
    /\ now - start_time >= 10 * sleeps
    /\ pc \in {"sleep", "poll"} => elapsed < 30

C6_Witness ==
    /\ polls = 3
    /\ sleeps = 3
    /\ pollLog = <<"transport", "partial", "transport">>

\* C7: a timeout of the polling call carries the transport-failure detail
\* exactly when the final poll failed in transport, and the incomplete-results
\* detail exactly when the final poll answered a payload with a null entry; a
\* transport failure below the ceiling leaves the call polling.
C7_TimeoutDetailFollowsLastPoll ==
    /\ ret = "poll_transport" =>
          /\ Last(pollLog) = "transport"
          /\ elapsed >= 30
          /\ Get(api_result, "error").msg = "Timeout waiting for results"
    /\ ret = "poll_incomplete" =>
          /\ Last(pollLog) \in {"allnull", "partial"}
          /\ \E i \in DOMAIN result_data : result_data[i][2].t = "null"
          /\ elapsed >= 30
          /\ Get(api_result, "error").msg = "Timeout waiting for all nodes to respond"
    /\ (pollLog # <<>> /\ Last(pollLog) = "transport" /\ elapsed < 30) =>
          (InAwait /\ ret = "none")

C7_Witness ==
    /\ ret = "poll_transport"
    /\ Len(pollLog) = 2
    /\ pollLog[1] = "transport"

KnownKeys(payload) == {n \in Keys(payload) : IsKnown(n)}

\* the payload without the entries of unknown identifiers, in order
KnownOnly(payload) == SelectSeq(payload, LAMBDA kv : IsKnown(kv[1]))

\* C8: the normalized result has one record for each known identifier of the
\* payload.
C8_OneRecordPerKnownNode ==
    (pc = "done" /\ ret = "payload" /\ results.raised = "none") =>
        Cardinality(DOMAIN results.value) = Cardinality(KnownKeys(api_result))

\* C9: an identifier absent from the reference table adds no record, leaves
\* the outcome for the known identifiers as it is without it, and raises
\* nothing of its own.
C9_UnknownNodeDropped ==
    (pc = "done" /\ ret = "payload") =>
        /\ results = Normalize(checkType, KnownOnly(api_result))
        /\ DOMAIN results.value \subseteq {Region(n) : n \in KnownKeys(api_result)}
        /\ KnownKeys(api_result) = {} => results = Returns(EmptyResults)

C9_Witness ==
    /\ pc = "done"
    /\ Len(api_result) = 2
    /\ api_result[1][1] = UnknownNode
    /\ api_result[1][2] = List(<<List(<<Null, Null>>)>>)
    /\ results.raised = "none"
    /\ DOMAIN results.value = {"USA (Los Angeles)"}

\* C10: normalizing a fully populated payload returns a result mapping,
\* whatever the shape of the entries; no exception leaves the method.
C10_NormalizationNeverRaises ==
    (pc = "done" /\ ret = "payload") => results.raised = "none"

\* the entry of the single node of a one-key payload, with its record
TheEntry == api_result[1][2]
TheRecord == results.value[Region(EntryNode)]
OneEntryDone ==
    /\ pc = "done"
    /\ ret = "payload"
    /\ Len(api_result) = 1
    /\ api_result[1][1] = EntryNode

\* the name of a check type in the error texts
TypeName(type) ==
    CASE type = "ping" -> "ping"
      [] type = "http" -> "HTTP"
      [] type = "tcp"  -> "TCP"
      [] type = "udp"  -> "UDP"
      [] type = "dns"  -> "DNS"

\* the fewest elements the first element of an entry must have
MinElems(type) ==
    CASE type = "ping" -> 2
      [] type = "http" -> 4
      [] type = "tcp"  -> 2
      [] type = "udp"  -> 2
      [] type = "dns"  -> 1

FirstIsShortList(e) ==
    /\ e.t = "list"
    /\ Len(e.l) > 0
    /\ e.l[1].t = "list"
    /\ Len(e.l[1].l) < MinElems(checkType)

\* C11: for each check type an empty sequence yields the record
\* {success: false, error: "No <Type> data"}, a sequence whose first element is
\* a sequence with fewer than 2 (ping, tcp, udp), 4 (http) or 1 (dns) elements
\* yields {success: false, error: "Invalid <Type> response"}, and neither
\* record has any other field.
C11_EmptyAndShortEntries ==
    OneEntryDone =>
        /\ TheEntry = List(<<>>) =>
              /\ results.raised = "none"
              /\ TheRecord = [success |-> FALSE,
                              error |-> <<"No", TypeName(checkType), "data">>]
        /\ FirstIsShortList(TheEntry) =>
              /\ results.raised = "none"
              /\ TheRecord = [success |-> FALSE,
                              error |-> <<"Invalid", TypeName(checkType), "response">>]

C11_Witness ==
    /\ OneEntryDone
    /\ checkType = "http"
    /\ TheEntry = List(<<List(<<Num(1), Num(2), OK>>)>>)
    /\ TheRecord.error = <<"Invalid", "HTTP", "response">>

\* C12: an entry that is present and non-empty but not a sequence yields the
\* record {success: false, error: "Invalid <Type> response"}.
C12_NonSequenceIsInvalid ==
    (OneEntryDone /\ TheEntry.t # "list" /\ Truthy(TheEntry)) =>
        /\ results.raised = "none"
        /\ TheRecord = [success |-> FALSE,
                        error |-> <<"Invalid", TypeName(checkType), "response">>]

\* an attempt with a status, and with a numeric latency when the status is "OK"
WellFormedAttempt(a) ==
    /\ a.t = "list"
    /\ Len(a.l) >= 1
    /\ a.l[1].t = "str"
    /\ a.l[1] = OK => (Len(a.l) >= 2 /\ a.l[2].t = "num")

\* an entry whose first element is a sequence of n >= 1 well-formed attempts
WellFormedPing(e) ==
    /\ e.t = "list"
    /\ Len(e.l) > 0
    /\ e.l[1].t = "list"
    /\ Len(e.l[1].l) >= 1
    /\ \A i \in DOMAIN e.l[1].l : WellFormedAttempt(e.l[1].l[i])

RECURSIVE SumOf(_, _)
SumOf(f, S) ==
    IF S = {} THEN 0
    ELSE LET x == CHOOSE y \in S : TRUE IN f[x] + SumOf(f, S \ {x})

\* the record the table of interpretations gives for a sequence of attempts
ExpectedPing(as) ==
    LET n == Len(as)
        oks == {i \in 1..n : as[i].l[1] = OK}
        ms == [i \in oks |-> as[i].l[2].n * 1000]
    IN  [success |-> oks # {},
         packet_loss |-> Frac((n - Cardinality(oks)) * 100, n),
         avg_latency |-> IF oks = {} THEN Frac(0, 1)
                         ELSE Frac(SumOf(ms, oks), Cardinality(oks)),
         min_latency |-> IF oks = {} THEN 0
                         ELSE CHOOSE m \in {ms[i] : i \in oks} : \A i \in oks : m <= ms[i],
         max_latency |-> IF oks = {} THEN 0
                         ELSE CHOOSE m \in {ms[i] : i \in oks} : \A i \in oks : m >= ms[i],
         ip |-> IF Len(as[1].l) >= 3 THEN as[1].l[3] ELSE Null]

\* C13: for ping, an entry whose first element is a sequence of N >= 1
\* well-formed attempts yields success = (some attempt is "OK"), packet_loss =
\* (N - successes)/N * 100, avg/min/max latency = mean/minimum/maximum of
\* latency * 1000 over the "OK" attempts (0 when there is none) and ip = third
\* field of the first attempt, or none.
C13_PingMetrics ==
    (OneEntryDone /\ checkType = "ping" /\ WellFormedPing(TheEntry)) =>
        /\ results.raised = "none"
        /\ TheRecord = ExpectedPing(TheEntry.l[1].l)

\* an entry whose first element is a sequence of at least n elements
FirstIsListOfAtLeast(e, n) ==
    /\ e.t = "list"
    /\ Len(e.l) > 0
    /\ e.l[1].t = "list"
    /\ Len(e.l[1].l) >= n

\* C14: for http, an entry whose first element is a sequence of at least 4
\* fields yields success = (first field = 1), response_time = second field *
\* 1000, status_msg = third field, status_code = fourth field and ip = fifth
\* field, or none.
C14_HttpFields ==
    (OneEntryDone /\ checkType = "http" /\ FirstIsListOfAtLeast(TheEntry, 4)) =>
        LET f == TheEntry.l[1].l IN
        /\ results.raised = "none"
        /\ TheRecord.success = (f[1] = Num(1))
        /\ f[2].t = "num" => TheRecord.response_time = Num(f[2].n * 1000)
        /\ TheRecord.status_msg = f[3]
        /\ TheRecord.status_code = f[4]
        /\ TheRecord.ip = (IF Len(f) >= 5 THEN f[5] ELSE Null)
        /\ DOMAIN TheRecord = {"success", "response_time", "status_msg", "status_code", "ip"}

\* an entry whose first element is a non-empty sequence of records
IsDnsRecords(e) ==
    /\ FirstIsListOfAtLeast(e, 1)
    /\ \A i \in DOMAIN e.l[1].l : e.l[1].l[i].t = "list"

\* C15: for dns, an entry whose first element is a non-empty sequence of
\* records yields success = true, resolution_time = first field of the first
\* record * 1000 (0 when it is null) and addresses = the second fields, in
\* order, of the records with at least 2 fields.
C15_DnsFields ==
    (OneEntryDone /\ checkType = "dns" /\ IsDnsRecords(TheEntry)) =>
        LET rs == TheEntry.l[1].l
            long == SelectSeq(rs, LAMBDA r : Len(r.l) >= 2)
        IN
        /\ results.raised = "none"
        /\ TheRecord.success = TRUE
        /\ Len(rs[1].l) >= 1
        /\ rs[1].l[1].t = "num" => TheRecord.resolution_time = Num(rs[1].l[1].n * 1000)
        /\ rs[1].l[1].t = "null" => TheRecord.resolution_time = Num(0)
        /\ TheRecord.addresses = [k \in 1..Len(long) |-> long[k].l[2]]
        /\ DOMAIN TheRecord = {"success", "resolution_time", "addresses"}

\* C16: the submission error carries the failure of the 3rd attempt: the text
\* of its transport exception, or the missing-handle cause.
C16_ErrorOfLastAttempt ==
    /\ ret = "api_failed" =>
          /\ Len(submitLog) = 3
          /\ submitLog[3] = "transport"
          /\ Get(api_result, "error") =
                [msg |-> "API request failed after retries", cause |-> submitExcs[3]]
    /\ ret = "no_check_id" =>
          /\ Len(submitLog) = 3
          /\ submitLog[3] = "nohandle"
          /\ Get(api_result, "error") =
                [msg |-> "No check ID received after retries", cause |-> "none"]
    /\ (NoHandleYet /\ ApiReturned) =>
          ret = (IF submitLog[3] = "transport" THEN "api_failed" ELSE "no_check_id")

C16_Witness ==
    /\ ret = "api_failed"
    /\ submitLog = <<"transport", "nohandle", "transport">>
    /\ submitExcs[1] = "Read timed out."
    /\ submitExcs[3] = "tlsv1 alert internal error"

TopLevelFailure == ret \in {"api_failed", "no_check_id", "poll_transport", "poll_incomplete"}

\* C17: in subcommand mode a check that ends in a submission failure or a poll
\* timeout makes the process print an error message and exit with a non-zero
\* code, for every check type and every detail text.
C17_FailureExitsNonZero ==
    (pc = "exited" /\ TopLevelFailure) => (error_printed /\ exit_code # 0)

C17_Witness ==
    /\ pc = "exited"
    /\ ret = "api_failed"
    /\ ContainsError(Get(api_result, "error").cause)
    /\ exit_code = 1

\* C18: once a submission response yields a job handle no further submission
\* request is sent, and the call ends as the polling call ends.
C18_NoResubmissionAfterHandle ==
    ~NoHandleYet =>
        /\ Last(submitLog) = "handle"
        /\ submits = Len(submitLog)
        /\ Cardinality({i \in DOMAIN submitLog : submitLog[i] = "handle"}) = 1
        /\ pc # "submit" /\ pc # "backoff"
        /\ ApiReturned => ret \in {"payload", "poll_transport", "poll_incomplete"}

C18_Witness ==
    /\ pc = "returned"
    /\ ret = "poll_transport"
    /\ submitLog = <<"transport", "handle">>

\* the three ways a check can end
IsSubmissionError(r) ==
    /\ HasKey(r, "error")
    /\ Get(r, "error").msg \in {"API request failed after retries",
                                "No check ID received after retries"}
IsPollTimeoutError(r) ==
    /\ HasKey(r, "error")
    /\ Get(r, "error").msg \in {"Timeout waiting for results",
                                "Timeout waiting for all nodes to respond"}
IsPayload(r) == r # NoneResult /\ \A i \in DOMAIN r : r[i][1] \in DOMAIN NODE_DETAILS

\* C19: every check ends, and it ends with a submission error, a poll-timeout
\* error or a payload mapping, never with None.
C19_CheckTerminatesWithResult ==
    /\ <>ApiReturned
    /\ [](ApiReturned =>
            /\ api_result # NoneResult
            /\ ret # "fell_off"
            /\ \/ IsSubmissionError(api_result)
               \/ IsPollTimeoutError(api_result)
               \/ (ret = "payload" /\ IsPayload(api_result)))

C19_Witness ==
    /\ pc = "returned"
    /\ ret = "no_check_id"
    /\ submitLog = <<"nohandle", "nohandle", "nohandle">>
====
